---- MODULE Spec2Model ----
(***************************************************************************)
(* State-machine model of src/snake.py (class Game and its helpers).       *)
(*                                                                         *)
(* Units.  Tick rates are kept in units of 0.5 frames per second, so that  *)
(* SPEED_INCREMENT (0.5) is the integer 1 and BASE_FPS["easy"] (8.0) is    *)
(* 16.  Time (dt, logic_acc, step) is kept in units of 1/TimeDen second;   *)
(* TimeDen is divisible by every tick rate the bounds can reach, so        *)
(* 1.0 / current_fps is exact.                                             *)
(***************************************************************************)
EXTENDS Integers, Sequences, FiniteSets, TLC

VARIABLES
    state,            \* Game.state: "menu" | "playing" | "paused" | "gameover"
    pc,               \* position in Game.run: "events" | "drain" | "exited"
    mode,             \* Game.mode
    wrap_on,          \* Game.wrap_on
    body,             \* Snake.body, head first
    dir,              \* Snake.dir
    score,            \* Game.score
    current_fps,      \* Game.current_fps (units of 0.5 fps)
    logic_acc,        \* Game.logic_acc
    step,             \* play_loop's local `step` while it drains, else 0
    game_over_reason, \* Game.game_over_reason
    food,             \* Game.food
    best,             \* Game.best
    records,          \* Game.records (the same dict object as save["records"])
    save_sound,       \* Game.save["sound"]
    file,             \* content of SAVE_FILE on disk
    sound_enabled,    \* SFX.enabled
    sound_ok,         \* SFX.ok
    mixer_up,         \* whether pygame.mixer.init() has succeeded
    menu_index,       \* Game.menu_index
    ev                \* the event or step the loop handled last

vars == <<state, pc, mode, wrap_on, body, dir, score, current_fps, logic_acc,
          step, game_over_reason, food, best, records, save_sound, file,
          sound_enabled, sound_ok, mixer_up, menu_index, ev>>

snakeVars == <<body, dir>>
runVars   == <<body, dir, score, current_fps, logic_acc, game_over_reason, food, best>>
soundVars == <<sound_enabled, sound_ok, mixer_up, save_sound>>

----------------------------------------------------------------------------
(* Bounds of the model *)

\* The window in pixels, scaled down from 640 x 480: a grid of 4 x 2 cells.
WIDTH == 80
HEIGHT == 40
\* How many cells outside the grid the head may travel before ticks stop.
MaxOff == 1
\* Ticks stop once the snake has this many cells.
MaxLen == 4
\* A frame lasts between 1 and MaxStall frame quanta.
MaxStall == 1
\* The same two bounds for the long runs of SpecLong (LongOff: columns only).
LongOff == 11
LongLen == 16

----------------------------------------------------------------------------
(* Program constants *)

CELL == 20
GRID_W == WIDTH \div CELL
GRID_H == HEIGHT \div CELL

GOLD_LIFETIME == 7
SCORE_NORMAL == 10
SCORE_GOLD == 30
SPEED_STEP_EVERY_SCORE == 5
SPEED_INCREMENT == 1

BASE_FPS == [easy |-> 16, normal |-> 20, hard |-> 24]
MAX_FPS_CAP == [easy |-> 40, normal |-> 48, hard |-> 56]

ModeValues == <<"easy", "normal", "hard">>
WrapValues == <<"off", "on">>
SoundValues == <<"off", "on">>
MenuLabels == <<"Start", "Mode", "Wrap", "Sound", "Quit">>

UP == <<0, -1>>
DOWN == <<0, 1>>
LEFT == <<-1, 0>>
RIGHT == <<1, 0>>
DIRS == {UP, DOWN, LEFT, RIGHT}

TimeDen == 16 * 9 * 5 * 7 * 11 * 13
FrameQuantum == TimeDen \div 8
DtValues == {n * FrameQuantum : n \in 1..MaxStall}
\* The time.time() readings (seconds) the model draws from: they give a gold
\* food the ages 0, GOLD_LIFETIME (not yet expired) and more (expired).
TimeValues == {0, 1, GOLD_LIFETIME, GOLD_LIFETIME + 1}

----------------------------------------------------------------------------
(* Pure helpers *)

Max2(a, b) == IF a >= b THEN a ELSE b
Min2(a, b) == IF a <= b THEN a ELSE b

\* Faulty variant of clamp: the ceiling is forgotten.
clampNoCeiling(n, lo, hi) == Max2(lo, n)

clamp(n, lo, hi) == Max2(lo, Min2(hi, n))

key_for_record(m, w) == m \o "_" \o (IF w THEN "on" ELSE "off")

AllKeys == {key_for_record(m, w) : m \in {"easy", "normal", "hard"}, w \in BOOLEAN}

\* dict.get(key, 0) followed by int()
RecordsGet(r, k) == IF k \in DOMAIN r THEN r[k] ELSE 0

\* dict[key] = v
RecordsSet(r, k, v) == [x \in (DOMAIN r) \cup {k} |-> IF x = k THEN v ELSE r[x]]

IndexOf(seq, v) == CHOOSE i \in 1..Len(seq) : seq[i] = v

\* values[(values.index(cur) + (1 if forward else -1)) % len(values)]
CycleValue(seq, cur, forward) ==
    seq[(((IndexOf(seq, cur) - 1) + (IF forward THEN 1 ELSE -1)) % Len(seq)) + 1]

opposite(a, b) == a[1] = -b[1] /\ a[2] = -b[2]

GridCells == {<<x, y>> : x \in 0..(GRID_W - 1), y \in 0..(GRID_H - 1)}

InGrid(c) == c[1] >= 0 /\ c[1] < GRID_W /\ c[2] >= 0 /\ c[2] < GRID_H

----------------------------------------------------------------------------
(* class Snake *)

RECURSIVE SnakeInitLoop(_, _, _, _)
\* for i in range(length): body.appendleft((start[0] - i, start[1]))
SnakeInitLoop(start, i, length, acc) ==
    IF i >= length THEN acc
    ELSE SnakeInitLoop(start, i + 1, length, <<<<start[1] - i, start[2]>>>> \o acc)

SnakeInit(start, length) == SnakeInitLoop(start, 0, length, <<>>)

head(b) == b[1]

\* Faulty variant of turn: the reversal check is missing.
turnUnchecked(d, newdir) == newdir

turn(d, newdir) == IF opposite(d, newdir) THEN d ELSE newdir

next_head(b, d) == <<head(b)[1] + d[1], head(b)[2] + d[2]>>

\* Faulty variant of move: the tail is dropped on a growing move and kept
\* otherwise.
moveGrowInverted(b, d, grow) ==
    LET pushed == <<next_head(b, d)>> \o b
    IN  IF grow THEN SubSeq(pushed, 1, Len(pushed) - 1) ELSE pushed

move(b, d, grow) ==
    LET pushed == <<next_head(b, d)>> \o b
    IN  IF grow THEN pushed ELSE SubSeq(pushed, 1, Len(pushed) - 1)

hits_self(b) == \E i \in 2..Len(b) : b[i] = head(b)

occupies(b) == {b[i] : i \in 1..Len(b)}

----------------------------------------------------------------------------
(* Food *)

NoFood == [pos |-> <<0, 0>>, kind |-> "none", spawn_time |-> 0]

Food(p, k, t) == [pos |-> p, kind |-> k, spawn_time |-> t]

\* Faulty variant of FreeCells: the snake is not looked at.
FreeCellsAnywhere(b) == {c \in GridCells : b = b}

FreeCells(b) == {c \in GridCells : c \notin occupies(b)}

\* The cells random.choice(free) can return; an empty list is never drawn from.
Choices(b) == IF FreeCells(b) = {} THEN {<<0, 0>>} ELSE FreeCells(b)

\* Faulty variant of spawn_food: a full board is not looked at.
spawn_foodOnFullBoard(f, b, force_normal, roll, p, now) ==
    IF ~force_normal /\ roll /\ f = NoFood
    THEN Food(p, "gold", now)
    ELSE Food(p, "normal", 0)

\* Game.spawn_food: the food after the call.  `p` is the cell random.choice
\* returned, `roll` whether random.random() < GOLD_CHANCE, `now` time.time().
spawn_food(f, b, force_normal, roll, p, now) ==
    IF FreeCells(b) = {} THEN f
    ELSE IF ~force_normal /\ roll /\ f = NoFood
         THEN Food(p, "gold", now)
         ELSE Food(p, "normal", 0)

\* time.time() never runs backwards: a reading is not before the spawn time
\* of the gold food it is compared with.
Readings(f) == {t \in TimeValues : f.kind = "gold" => t >= f.spawn_time}

----------------------------------------------------------------------------
(* Speed *)

\* clamp(BASE_FPS[mode] + (score // SPEED_STEP_EVERY_SCORE) * SPEED_INCREMENT, base, cap)
TickRate(m, s) ==
    clamp(BASE_FPS[m] + (s \div SPEED_STEP_EVERY_SCORE) * SPEED_INCREMENT,
          BASE_FPS[m], MAX_FPS_CAP[m])

\* 1.0 / current_fps
StepOf(fps) == (2 * TimeDen) \div fps

----------------------------------------------------------------------------
(* State after construction: Game.__init__ *)

\* ev.op names the event or step; ev.arg is the direction of a turn, the
\* two gold rolls of a tick (1 = the roll succeeded), and NoArg otherwise.
Ev(op, arg) == [op |-> op, arg |-> arg]
Bit(b) == IF b THEN 1 ELSE 0
NoArg == <<0, 0>>

EmptyTable == [k \in {} |-> 0]

StartCell == <<GRID_W \div 2, GRID_H \div 2>>

\* The high-score tables a save file may hold at start-up.
LoadedTables == {EmptyTable, [k \in {"normal_off"} |-> SCORE_NORMAL]}

\* A save file whose records no run of the model can beat.
HighTable == [k \in AllKeys |-> 100 * SCORE_NORMAL]

\* Game.reset_run, without the sound: the run variables after the call.
\* `p` is the cell random.choice returned for the first food.
reset_run(p) ==
    /\ body' = SnakeInit(StartCell, 3)
    /\ dir' = RIGHT
    /\ score' = 0
    /\ current_fps' = BASE_FPS[mode]
    /\ logic_acc' = 0
    /\ game_over_reason' = ""
    /\ food' = spawn_food(NoFood, SnakeInit(StartCell, 3), TRUE, FALSE, p, 0)
    /\ best' = RecordsGet(records, key_for_record(mode, wrap_on))

\* Faulty variant of persist: the file is written without the records.
persistNoRecords(io_ok) ==
    /\ save_sound' = (sound_enabled' /\ sound_ok')
    /\ file' = IF io_ok
               THEN [present |-> TRUE, sound |-> (sound_enabled' /\ sound_ok'),
                     records |-> EmptyTable]
               ELSE file

\* Game.persist: save["sound"], save["records"] and the file after the call.
\* `io_ok` is whether safe_save_highscores could write the file.
persist(io_ok) ==
    /\ save_sound' = (sound_enabled' /\ sound_ok')
    /\ file' = IF io_ok
               THEN [present |-> TRUE, sound |-> (sound_enabled' /\ sound_ok'),
                     records |-> records']
               ELSE file

\* Game.to_game_over
to_game_over(io_ok) ==
    /\ state' = "gameover"
    /\ UNCHANGED <<sound_enabled, sound_ok, mixer_up>>
    /\ persist(io_ok)

\* Game.__init__ for the given command line (modes, wraps), save file
\* (present, sound flag, table) and outcome of pygame.mixer.init().
InitWith(modes, wraps, presents, sounds, tables, mixers) ==
    /\ state = "menu"
    /\ pc = "events"
    /\ mode \in modes
    /\ wrap_on \in wraps
    /\ \E present \in presents, snd \in sounds, tab \in tables, mix \in mixers :
          /\ file = IF present
                    THEN [present |-> TRUE, sound |-> snd, records |-> tab]
                    ELSE [present |-> FALSE, sound |-> TRUE, records |-> EmptyTable]
          /\ save_sound = file.sound
          /\ records = file.records
          /\ sound_enabled = (file.sound /\ mix)
          /\ sound_ok = (file.sound /\ mix)
          /\ mixer_up = (file.sound /\ mix)
    /\ body = SnakeInit(StartCell, 3)
    /\ dir = RIGHT
    /\ score = 0
    /\ current_fps = BASE_FPS[mode]
    /\ logic_acc = 0
    /\ step = 0
    /\ game_over_reason = ""
    /\ food \in {spawn_food(NoFood, SnakeInit(StartCell, 3), TRUE, FALSE, p, 0) :
                    p \in Choices(SnakeInit(StartCell, 3))}
    /\ best = RecordsGet(records, key_for_record(mode, wrap_on))
    /\ menu_index = 0
    /\ ev = Ev("init", NoArg)

----------------------------------------------------------------------------
(* Game.step_logic *)

\* nx %= GRID_W; ny %= GRID_H
WrapCell(c) == <<c[1] % GRID_W, c[2] % GRID_H>>

\* Faulty variant of OutOfGrid: > where the code has >=.
OutOfGridOffByOne(c) == c[1] < 0 \/ c[1] > GRID_W \/ c[2] < 0 \/ c[2] > GRID_H

\* nx < 0 or nx >= GRID_W or ny < 0 or ny >= GRID_H
OutOfGrid(c) == c[1] < 0 \/ c[1] >= GRID_W \/ c[2] < 0 \/ c[2] >= GRID_H

\* (nx, ny) after the border handling
TargetCell(b, d, w) == IF w THEN WrapCell(next_head(b, d)) ELSE next_head(b, d)

\* the wall branch: wrap off and the next head outside the grid
WallHit(b, d, w) == ~w /\ OutOfGrid(next_head(b, d))

\* ate_kind: "gold", "normal" or "none" (None)
AteKind(f, c) == IF f # NoFood /\ c = f.pos THEN f.kind ELSE "none"

\* Faulty variant of ScoreGain: every food scores as Gold.
ScoreGainAlwaysGold(kind) == IF kind = "none" THEN 0 ELSE SCORE_GOLD

ScoreGain(kind) ==
    IF kind = "gold" THEN SCORE_GOLD ELSE IF kind = "normal" THEN SCORE_NORMAL ELSE 0

\* Faulty variant of MovedBody: the second move follows every food, not only Gold.
MovedBodyTwiceOnEat(b, d, kind) ==
    LET first == move(b, d, kind # "none")
    IN  IF kind # "none" THEN move(first, d, TRUE) ELSE first

\* snake.move(grow=grow), and a second snake.move(grow=True) after gold
MovedBody(b, d, kind) ==
    LET first == move(b, d, kind # "none")
    IN  IF kind = "gold" THEN move(first, d, TRUE) ELSE first

\* The food after the tick's food handling (lines 568-588), for the snake `b`
\* after the move.  rollA is the roll of line 576, rollB the one inside
\* spawn_food, p1 and p2 the cells of the first and second spawn_food call.
FoodAfter(f, b, kind, rollA, rollB, p1, p2, now) ==
    IF kind # "none"
    THEN IF kind = "normal" /\ rollA
         THEN LET tried == spawn_food(f, b, FALSE, rollB, p1, now)
              IN  IF tried # NoFood /\ tried.kind = "gold"
                  THEN [tried EXCEPT !.spawn_time = now]
                  ELSE spawn_food(tried, b, TRUE, FALSE, p2, now)
         ELSE spawn_food(f, b, TRUE, FALSE, p1, now)
    ELSE IF f # NoFood /\ f.kind = "gold" /\ now - f.spawn_time > GOLD_LIFETIME
         THEN spawn_food(f, b, TRUE, FALSE, p1, now)
         ELSE f

\* Faulty variant of BeatsBest: != where the code has >.
BeatsBestDiffers(total, b) == total # b

\* if self.score > self.best
BeatsBest(total, b) == total > b

\* One call of step_logic.
step_logic(rollA, rollB, p1, p2, now, io_ok) ==
    IF WallHit(body, dir, wrap_on)
    THEN /\ game_over_reason' = "wall"
         /\ UNCHANGED <<body, dir, score, current_fps, food, best, records>>
         /\ to_game_over(io_ok)
    ELSE LET kind  == AteKind(food, TargetCell(body, dir, wrap_on))
             moved == MovedBody(body, dir, kind)
             total == score + ScoreGain(kind)
         IN  /\ body' = moved
             /\ dir' = dir
             /\ score' = total
             /\ IF hits_self(moved)
                THEN /\ game_over_reason' = "self"
                     /\ UNCHANGED <<current_fps, food, best, records>>
                     /\ to_game_over(io_ok)
                ELSE /\ food' = FoodAfter(food, moved, kind, rollA, rollB, p1, p2, now)
                     /\ current_fps' = TickRate(mode, total)
                     /\ IF BeatsBest(total, best)
                        THEN /\ best' = total
                             /\ records' = RecordsSet(records,
                                              key_for_record(mode, wrap_on), total)
                        ELSE UNCHANGED <<best, records>>
                     /\ UNCHANGED <<state, game_over_reason, file>>
                     /\ UNCHANGED soundVars

----------------------------------------------------------------------------
(* Game.play_loop *)

AtEvents(s) == state = s /\ pc = "events"

\* K_ESCAPE: back to the menu, the run is left as it is
PlayEscape ==
    /\ AtEvents("playing")
    /\ state' = "menu"
    /\ ev' = Ev("escape", NoArg)
    /\ UNCHANGED <<pc, mode, wrap_on, step, records, file, menu_index>>
    /\ UNCHANGED runVars
    /\ UNCHANGED soundVars

\* K_p
PlayPause ==
    /\ AtEvents("playing")
    /\ state' = "paused"
    /\ ev' = Ev("pause", NoArg)
    /\ UNCHANGED <<pc, mode, wrap_on, step, records, file, menu_index>>
    /\ UNCHANGED runVars
    /\ UNCHANGED soundVars

\* K_r: reset_run(full_reset=False), still playing
PlayRestart ==
    /\ AtEvents("playing")
    /\ \E p \in Choices(SnakeInit(StartCell, 3)) : reset_run(p)
    /\ ev' = Ev("restart", NoArg)
    /\ UNCHANGED <<state, pc, mode, wrap_on, step, records, file, menu_index>>
    /\ UNCHANGED soundVars

\* SFX.toggle, save["sound"] = enabled, persist()
MuteKey(io_ok) ==
    /\ sound_enabled' = ((~sound_enabled) /\ sound_ok)
    /\ UNCHANGED <<sound_ok, mixer_up, records>>
    /\ persist(io_ok)
    /\ ev' = Ev("mute", NoArg)
    /\ UNCHANGED <<state, pc, mode, wrap_on, step, menu_index>>
    /\ UNCHANGED runVars

\* K_m while playing
PlayMute(io_ok) == AtEvents("playing") /\ MuteKey(io_ok)

\* arrow keys and WASD: handle_turn_keys -> Snake.turn
PlayTurn(d) ==
    /\ AtEvents("playing")
    /\ dir' = turn(dir, d)
    /\ ev' = Ev("turn", d)
    /\ UNCHANGED <<state, pc, mode, wrap_on, body, score, current_fps, logic_acc, step,
                   game_over_reason, food, best, records, file, menu_index>>
    /\ UNCHANGED soundVars

\* pygame.QUIT in any loop, and what run() does once a loop returns False
Exit(io_ok) ==
    /\ pc' = "exited"
    /\ UNCHANGED <<sound_enabled, sound_ok, mixer_up, records>>
    /\ persist(io_ok)
    /\ ev' = Ev("quit", NoArg)
    /\ UNCHANGED <<state, mode, wrap_on, step, menu_index>>
    /\ UNCHANGED runVars

PlayQuit(io_ok) == AtEvents("playing") /\ Exit(io_ok)

\* The end of the event loop of a frame that lasted dt: logic_acc += dt and
\* step = 1.0 / current_fps, before the while loop.
PlayFrame(dt) ==
    /\ AtEvents("playing")
    /\ logic_acc' = logic_acc + dt
    /\ step' = StepOf(current_fps)
    /\ pc' = "drain"
    /\ ev' = Ev("frame", NoArg)
    /\ UNCHANGED <<state, mode, wrap_on, body, dir, score, current_fps,
                   game_over_reason, food, best, records, file, menu_index>>
    /\ UNCHANGED soundVars

\* The model stops ticking when the head would leave the modelled area or
\* the snake has reached the modelled length.
WithinBounds(offx, offy, len) ==
    LET n == next_head(body, dir)
    IN  /\ n[1] >= -offx /\ n[1] < GRID_W + offx
        /\ n[2] >= -offy /\ n[2] < GRID_H + offy
        /\ Len(body) < len

\* One iteration of `while self.logic_acc >= step`.  The random draws and
\* the clock reading are enumerated only on the paths that use them.
DrainTick(offx, offy, len, ios) ==
    /\ pc = "drain"
    /\ logic_acc >= step
    /\ WithinBounds(offx, offy, len)
    /\ logic_acc' = logic_acc - step
    /\ LET kind  == AteKind(food, TargetCell(body, dir, wrap_on))
           cells == Choices(MovedBody(body, dir, kind))
       IN  \E rollA \in (IF kind = "normal" THEN BOOLEAN ELSE {FALSE}), io_ok \in ios :
           \E rollB \in (IF rollA THEN BOOLEAN ELSE {FALSE}) :
           \E p1 \in (IF kind # "none" \/ food.kind = "gold" THEN cells ELSE {NoArg}),
              p2 \in (IF rollA THEN cells ELSE {NoArg}),
              now \in (IF rollB \/ food.kind = "gold" THEN Readings(food) ELSE {0}) :
              /\ step_logic(rollA, rollB, p1, p2, now, io_ok)
              /\ ev' = Ev("tick", <<Bit(rollA), Bit(rollB)>>)
    /\ UNCHANGED <<pc, mode, wrap_on, step, menu_index>>

\* The while loop ends; draw_game; back to run()
DrainEnd ==
    /\ pc = "drain"
    /\ logic_acc < step
    /\ pc' = "events"
    /\ step' = 0
    /\ ev' = Ev("drawn", NoArg)
    /\ UNCHANGED <<state, mode, wrap_on, records, file, menu_index>>
    /\ UNCHANGED runVars
    /\ UNCHANGED soundVars

----------------------------------------------------------------------------
(* Game.pause_loop *)

\* Faulty variant of PauseResume: the key leaves the run for the menu.
PauseResumeToMenu ==
    /\ AtEvents("paused")
    /\ state' = "menu"
    /\ ev' = Ev("resume", NoArg)
    /\ UNCHANGED <<pc, mode, wrap_on, step, records, file, menu_index>>
    /\ UNCHANGED runVars
    /\ UNCHANGED soundVars

\* K_ESCAPE or K_p
PauseResume ==
    /\ AtEvents("paused")
    /\ state' = "playing"
    /\ ev' = Ev("resume", NoArg)
    /\ UNCHANGED <<pc, mode, wrap_on, step, records, file, menu_index>>
    /\ UNCHANGED runVars
    /\ UNCHANGED soundVars

\* K_m while paused
PauseMute(io_ok) == AtEvents("paused") /\ MuteKey(io_ok)

\* Faulty variant of PauseIdle: the frame's time is accumulated.
PauseIdleAccumulates(k) ==
    /\ AtEvents("paused")
    /\ logic_acc' = logic_acc + FrameQuantum
    /\ ev' = Ev(k, NoArg)
    /\ UNCHANGED <<state, pc, mode, wrap_on, body, dir, score, current_fps, step,
                   game_over_reason, food, best, records, file, menu_index>>
    /\ UNCHANGED soundVars

\* Any other key, and a frame without events: nothing but the redraw
PauseIdle(k) ==
    /\ AtEvents("paused")
    /\ ev' = Ev(k, NoArg)
    /\ UNCHANGED <<state, pc, mode, wrap_on, step, records, file, menu_index>>
    /\ UNCHANGED runVars
    /\ UNCHANGED soundVars

PauseQuit(io_ok) == AtEvents("paused") /\ Exit(io_ok)

----------------------------------------------------------------------------
(* Game.gameover_loop *)

\* K_ESCAPE
OverEscape ==
    /\ AtEvents("gameover")
    /\ state' = "menu"
    /\ ev' = Ev("escape", NoArg)
    /\ UNCHANGED <<pc, mode, wrap_on, step, records, file, menu_index>>
    /\ UNCHANGED runVars
    /\ UNCHANGED soundVars

\* K_r: reset_run(full_reset=False), then playing
OverRestart ==
    /\ AtEvents("gameover")
    /\ \E p \in Choices(SnakeInit(StartCell, 3)) : reset_run(p)
    /\ state' = "playing"
    /\ ev' = Ev("restart", NoArg)
    /\ UNCHANGED <<pc, mode, wrap_on, step, records, file, menu_index>>
    /\ UNCHANGED soundVars

OverQuit(io_ok) == AtEvents("gameover") /\ Exit(io_ok)

----------------------------------------------------------------------------
(* Game.menu_loop *)

MenuLabel == MenuLabels[menu_index + 1]

\* K_UP (forward = FALSE) and K_DOWN (forward = TRUE)
MenuMove(forward) ==
    /\ AtEvents("menu")
    /\ menu_index' = (menu_index + (IF forward THEN 1 ELSE -1)) % Len(MenuLabels)
    /\ ev' = Ev("menu_move", NoArg)
    /\ UNCHANGED <<state, pc, mode, wrap_on, step, records, file>>
    /\ UNCHANGED runVars
    /\ UNCHANGED soundVars

\* menu_change_value on "Mode"
MenuMode(forward) ==
    /\ AtEvents("menu")
    /\ MenuLabel = "Mode"
    /\ mode' = CycleValue(ModeValues, mode, forward)
    /\ current_fps' = BASE_FPS[mode']
    /\ best' = RecordsGet(records, key_for_record(mode', wrap_on))
    /\ ev' = Ev("menu_mode", NoArg)
    /\ UNCHANGED <<state, pc, wrap_on, body, dir, score, logic_acc, step,
                   game_over_reason, food, records, file, menu_index>>
    /\ UNCHANGED soundVars

\* Faulty variant of MenuWrap: best is not looked up for the new key.
MenuWrapStaleBest(forward) ==
    /\ AtEvents("menu")
    /\ MenuLabel = "Wrap"
    /\ wrap_on' = (CycleValue(WrapValues, IF wrap_on THEN "on" ELSE "off", forward) = "on")
    /\ ev' = Ev("menu_wrap", NoArg)
    /\ UNCHANGED <<state, pc, mode, body, dir, score, current_fps, logic_acc, step,
                   game_over_reason, food, best, records, file, menu_index>>
    /\ UNCHANGED soundVars

\* menu_change_value on "Wrap"
MenuWrap(forward) ==
    /\ AtEvents("menu")
    /\ MenuLabel = "Wrap"
    /\ wrap_on' = (CycleValue(WrapValues, IF wrap_on THEN "on" ELSE "off", forward) = "on")
    /\ best' = RecordsGet(records, key_for_record(mode, wrap_on'))
    /\ ev' = Ev("menu_wrap", NoArg)
    /\ UNCHANGED <<state, pc, mode, body, dir, score, current_fps, logic_acc, step,
                   game_over_reason, food, records, file, menu_index>>
    /\ UNCHANGED soundVars

\* menu_change_value on "Sound"
MenuSound(forward, io_ok) ==
    /\ AtEvents("menu")
    /\ MenuLabel = "Sound"
    /\ LET shown   == IF sound_enabled /\ sound_ok THEN "on" ELSE "off"
           desired == CycleValue(SoundValues, shown, forward) = "on"
       IN  IF desired /\ ~(sound_enabled /\ sound_ok)
           THEN sound_enabled' = TRUE /\ sound_ok' = TRUE
           ELSE IF ~desired
                THEN sound_enabled' = FALSE /\ sound_ok' = sound_ok
                ELSE UNCHANGED <<sound_enabled, sound_ok>>
    /\ UNCHANGED <<mixer_up, records>>
    /\ persist(io_ok)
    /\ ev' = Ev("menu_sound", NoArg)
    /\ UNCHANGED <<state, pc, mode, wrap_on, step, menu_index>>
    /\ UNCHANGED runVars

\* K_RETURN on "Start": reset_run(full_reset=True), then playing
MenuStart ==
    /\ AtEvents("menu")
    /\ MenuLabel = "Start"
    /\ \E p \in Choices(SnakeInit(StartCell, 3)) : reset_run(p)
    /\ state' = "playing"
    /\ ev' = Ev("start", NoArg)
    /\ UNCHANGED <<pc, mode, wrap_on, step, records, file, menu_index>>
    /\ UNCHANGED soundVars

\* K_ESCAPE, K_RETURN on "Quit", pygame.QUIT
MenuQuit(io_ok) == AtEvents("menu") /\ Exit(io_ok)

----------------------------------------------------------------------------
(* Specifications *)

IoOutcomes == {TRUE}

\* A session: every screen and the menu's Mode and Wrap items, started with
\* the command line's defaults; the player steers with the Up key only.
Init == InitWith({"normal"}, {FALSE}, {TRUE}, {TRUE}, LoadedTables, {TRUE})

Next ==
    \/ PlayEscape
    \/ PlayPause
    \/ PlayRestart
    \/ PlayTurn(UP)
    \/ \E dt \in DtValues : PlayFrame(dt)
    \/ DrainTick(MaxOff, MaxOff, MaxLen, IoOutcomes)
    \/ DrainEnd
    \/ PauseResume
    \/ OverEscape
    \/ OverRestart
    \/ \E f \in BOOLEAN : MenuMove(f)
    \/ \E f \in BOOLEAN : MenuMode(f)
    \/ \E f \in BOOLEAN : MenuWrap(f)
    \/ MenuStart

Spec == Init /\ [][Next]_vars

\* Play: runs with wrap off steered with all four directions; the menu only
\* starts runs.
InitPlay == InitWith({"normal"}, {FALSE}, {TRUE}, {TRUE}, {EmptyTable}, {TRUE})

NextPlay ==
    \/ PlayEscape
    \/ PlayPause
    \/ PlayRestart
    \/ \E d \in DIRS : PlayTurn(d)
    \/ \E dt \in DtValues : PlayFrame(dt)
    \/ DrainTick(MaxOff, MaxOff, MaxLen, IoOutcomes)
    \/ DrainEnd
    \/ PauseResume
    \/ OverEscape
    \/ OverRestart
    \/ MenuStart

SpecPlay == InitPlay /\ [][NextPlay]_vars

\* Wrap: runs with wrap on (--wrap on) steered with the Up and Right keys.
InitWrap == InitWith({"normal"}, {TRUE}, {TRUE}, {TRUE}, {EmptyTable}, {TRUE})

NextWrap ==
    \/ PlayEscape
    \/ PlayPause
    \/ PlayRestart
    \/ \E d \in {UP, RIGHT} : PlayTurn(d)
    \/ \E dt \in DtValues : PlayFrame(dt)
    \/ DrainTick(MaxOff, MaxOff, MaxLen, IoOutcomes)
    \/ DrainEnd
    \/ PauseResume
    \/ OverEscape
    \/ OverRestart
    \/ MenuStart

SpecWrap == InitWrap /\ [][NextWrap]_vars

\* Long runs: wrap on, the snake steered with the Up and Right keys and
\* followed up to LongOff columns right of the grid, long enough for the tick
\* rate to reach its ceiling; frames arrive one tick period apart; a run is
\* left for the menu only once it is over; the menu changes the mode; the
\* save file holds records no run beats.
InitLong == InitWith({"easy", "normal", "hard"}, {TRUE}, {TRUE}, {TRUE}, {HighTable}, {TRUE})

NextLong ==
    \/ PlayRestart
    \/ \E d \in {UP, RIGHT} : PlayTurn(d)
    \/ PlayFrame(StepOf(current_fps))
    \/ DrainTick(LongOff, MaxOff, LongLen, IoOutcomes)
    \/ DrainEnd
    \/ OverEscape
    \/ OverRestart
    \/ \E f \in BOOLEAN : MenuMove(f)
    \/ \E f \in BOOLEAN : MenuMode(f)
    \/ MenuStart

SpecLong == InitLong /\ [][NextLong]_vars

\* Saving: runs with wrap off in which a write of the save file may fail
\* (safe_save_highscores swallows the exception); the save file may be
\* missing at start-up; the program may be quit from any screen; a run
\* is followed until the snake has MaxLen + 1 cells.
InitSave == InitWith({"normal"}, {FALSE}, {TRUE, FALSE}, {TRUE}, LoadedTables, {TRUE})

NextSave ==
    \/ PlayRestart
    \/ \E d \in DIRS : PlayTurn(d)
    \/ \E dt \in DtValues : PlayFrame(dt)
    \/ DrainTick(MaxOff, MaxOff, MaxLen + 1, BOOLEAN)
    \/ DrainEnd
    \/ \E io_ok \in BOOLEAN : PlayQuit(io_ok)
    \/ OverEscape
    \/ OverRestart
    \/ \E io_ok \in BOOLEAN : OverQuit(io_ok)
    \/ MenuStart
    \/ \E io_ok \in BOOLEAN : MenuQuit(io_ok)

SpecSave == InitSave /\ [][NextSave]_vars

\* Full board: runs with wrap off steered with all four directions, frames
\* one tick period apart, followed while the snake has no more cells than
\* the grid.
InitFull == InitWith({"normal"}, {FALSE}, {TRUE}, {TRUE}, {EmptyTable}, {TRUE})

NextFull ==
    \/ PlayRestart
    \/ \E d \in DIRS : PlayTurn(d)
    \/ PlayFrame(StepOf(current_fps))
    \/ DrainTick(MaxOff, MaxOff, GRID_W * GRID_H + 1, IoOutcomes)
    \/ DrainEnd
    \/ OverRestart
    \/ MenuStart

SpecFull == InitFull /\ [][NextFull]_vars

\* Pause and sound: runs with wrap off steered with the Up key, paused and
\* resumed, with the mute key in Playing and Paused and the menu's Sound
\* item; the save file asks for sound and pygame.mixer.init() may fail.
\* While paused, the keys the pause screen ignores and frames without events
\* are the events "paused_key" and "paused_frame".
InitSound == InitWith({"normal"}, {FALSE}, {TRUE}, {TRUE}, {EmptyTable}, {TRUE, FALSE})

NextSound ==
    \/ PlayEscape
    \/ PlayPause
    \/ PlayTurn(UP)
    \/ \E dt \in DtValues : PlayFrame(dt)
    \/ DrainTick(MaxOff, MaxOff, MaxLen, IoOutcomes)
    \/ DrainEnd
    \/ \E io_ok \in IoOutcomes : PlayMute(io_ok)
    \/ PauseResume
    \/ \E io_ok \in IoOutcomes : PauseMute(io_ok)
    \/ \E k \in {"paused_key", "paused_frame"} : PauseIdle(k)
    \/ \E io_ok \in IoOutcomes : PauseQuit(io_ok)
    \/ OverEscape
    \/ OverRestart
    \/ \E f \in BOOLEAN : MenuMove(f)
    \/ \E f \in BOOLEAN, io_ok \in IoOutcomes : MenuSound(f, io_ok)
    \/ MenuStart

SpecSound == InitSound /\ [][NextSound]_vars

----------------------------------------------------------------------------
(* Claims *)

\* A step that is one call of step_logic
IsTick == pc = "drain" /\ ev'.op = "tick"

\* head + direction, before any border handling
Ahead == <<body[1][1] + dir[1], body[1][2] + dir[2]>>

\* The kind of the food the tick eats: the food on the cell ahead (folded
\* onto the grid in wrap mode), unless the tick ends at the wall.
Eaten ==
    LET target == IF wrap_on THEN <<Ahead[1] % GRID_W, Ahead[2] % GRID_H>> ELSE Ahead
    IN  IF ~wrap_on /\ Ahead \notin GridCells THEN "none"
        ELSE IF food.kind # "none" /\ food.pos = target THEN food.kind
        ELSE "none"

\* C1 (as claimed): in wrap mode every cell of the snake lies on the grid in
\* every reachable state, because each tick folds the new head onto the grid.
C1_WrapKeepsSnakeOnGrid ==
    wrap_on => \A i \in 1..Len(body) : body[i] \in GridCells

C3_ResetPlacesHeadAtStart ==
    ev.op \in {"start", "restart"} =>
        /\ body = <<StartCell, <<StartCell[1] - 1, StartCell[2]>>,
                    <<StartCell[1] - 2, StartCell[2]>>>>
        /\ dir = RIGHT
        /\ score = 0
        /\ current_fps = BASE_FPS[mode]
        /\ food.kind = "normal"
        /\ \A i \in 1..Len(body) : food.pos # body[i]

\* C4: with wrap off, a tick in Playing whose next head is outside the grid
\* ends the run with reason "wall" and leaves snake, direction, food, score,
\* tick rate and best as they were.
C4_WallEndsRun ==
    [][(IsTick /\ state = "playing" /\ ~wrap_on /\ Ahead \notin GridCells) =>
          /\ state' = "gameover"
          /\ game_over_reason' = "wall"
          /\ UNCHANGED <<body, dir, food, score, current_fps, best>>]_vars

\* C4 witness: a tick has ended a run at the wall.
C4_WallWitness ==
    ev.op = "tick" /\ state = "gameover" /\ game_over_reason = "wall" /\ ~wrap_on

\* C5: a tick that eats Normal food adds 1 cell and 10 points, one that eats
\* Gold food adds 2 cells and 30 points, one that eats nothing adds neither.
C5_EatGrowsAndScores ==
    [][IsTick =>
          /\ Len(body') - Len(body) =
                (IF Eaten = "normal" THEN 1 ELSE IF Eaten = "gold" THEN 2 ELSE 0)
          /\ score' - score =
                (IF Eaten = "normal" THEN 10 ELSE IF Eaten = "gold" THEN 30 ELSE 0)]_vars

\* C5 witness: the first Normal food of a run has been eaten and replaced.
C5_GrownWitness ==
    /\ ev.op = "tick" /\ Len(body) = 4 /\ score = 10 /\ best >= 10
    /\ food.kind = "normal" /\ food.pos # body[1]

\* C6: a request for the exact opposite of the current direction leaves the
\* direction as it is; any other request sets the direction.
C6_NoReversal ==
    [][\A d \in DIRS :
          ev' = Ev("turn", d) =>
             dir' = (IF d = <<-dir[1], -dir[2]>> THEN dir ELSE d)]_vars

\* C6 witness: Left was requested and the snake still heads right.
C6_RejectedWitness ==
    ev = Ev("turn", LEFT) /\ dir = RIGHT /\ state = "playing"

\* C7 (as claimed): when a tick eats a Normal food, both gold rolls succeed,
\* a free cell exists and the run goes on, the replacement food is Gold.
C7_GoldAfterNormal ==
    [][(/\ IsTick
        /\ Eaten = "normal"
        /\ ev'.arg = <<1, 1>>
        /\ state' = "playing"
        /\ \E c \in GridCells : \A i \in 1..Len(body') : body'[i] # c)
          => food'.kind = "gold"]_vars

\* C9: the tick rate stays between the active mode's base and ceiling, and no
\* step other than a run reset or a change of mode lowers it.
C9_RateWithinModeRange ==
    /\ [](current_fps >= BASE_FPS[mode] /\ current_fps <= MAX_FPS_CAP[mode])
    /\ [][ev'.op \notin {"start", "restart", "menu_mode"} =>
             current_fps' >= current_fps]_vars

\* C9 witness: the score asks for more than the ceiling and the rate is the
\* ceiling.
C9_CeilingWitness ==
    /\ ev.op = "tick"
    /\ BASE_FPS[mode] + (score \div 5) > MAX_FPS_CAP[mode]
    /\ current_fps = MAX_FPS_CAP[mode]

\* C10: no step removes a key of the high-score table or lowers its score.
C10_RecordsNeverDecrease ==
    [][\A k \in DOMAIN records :
          k \in DOMAIN records' /\ records'[k] >= records[k]]_vars

\* C10 witness: a run in another mode and wrap setting has set its own record
\* beside the one the save file held.
C10_SecondRecordWitness ==
    /\ ev.op = "tick" /\ mode = "hard" /\ wrap_on
    /\ DOMAIN records = {"normal_off", "hard_on"}
    /\ records["hard_on"] = score /\ score > 0

\* C11: the game starts in the menu and the game state changes only along
\* Menu->Playing (Start), Playing->Menu (Escape), Playing->Paused (Pause),
\* Paused->Playing (Resume), Playing->GameOver (a tick reporting a wall or
\* self collision), GameOver->Menu (Escape), GameOver->Playing (Restart).
C11_StateChanges ==
    /\ state = "menu"
    /\ [][state' # state =>
            \/ state = "menu" /\ state' = "playing" /\ ev'.op = "start"
            \/ state = "playing" /\ state' = "menu" /\ ev'.op = "escape"
            \/ state = "playing" /\ state' = "paused" /\ ev'.op = "pause"
            \/ state = "paused" /\ state' = "playing" /\ ev'.op = "resume"
            \/ /\ state = "playing" /\ state' = "gameover" /\ ev'.op = "tick"
               /\ game_over_reason' \in {"wall", "self"}
            \/ state = "gameover" /\ state' = "menu" /\ ev'.op = "escape"
            \/ state = "gameover" /\ state' = "playing" /\ ev'.op = "restart"]_vars

\* C11 witness: a run was started, ended at the wall and was left for the menu.
C11_BackInMenuWitness ==
    state = "menu" /\ ev.op = "escape" /\ game_over_reason = "wall"

C13_StepPerIteration ==
    [][/\ (IsTick /\ state = "playing") =>
             logic_acc' = logic_acc - StepOf(current_fps)
       /\ (ev'.op = "drawn" /\ state = "playing") =>
             logic_acc' < StepOf(current_fps')]_vars

\* C14: a tick in Playing that eats and leaves no grid cell free of the snake
\* keeps the food value it had, stays in Playing and completes: the score is
\* added, the tick rate follows the score and best follows a beaten record.
C14_FullBoardKeepsFood ==
    [][(/\ IsTick /\ state = "playing" /\ state' = "playing"
        /\ Eaten # "none"
        /\ FreeCells(body') = {})
          => /\ food' = food
             /\ game_over_reason' = ""
             /\ current_fps' = TickRate(mode, score')
             /\ best' = Max2(best, score')]_vars

\* C14 witness: the snake covers the grid after a tick that ate, the run goes
\* on and the food eaten is still the food, under the head.
C14_FullBoardWitness ==
    /\ ev.op = "tick" /\ state = "playing"
    /\ FreeCells(body) = {} /\ Len(body) = GRID_W * GRID_H
    /\ food.kind = "normal" /\ food.pos = body[1]
    /\ score = (GRID_W * GRID_H - 3) * SCORE_NORMAL /\ best = score

\* C15 (as claimed): once the state is GameOver no tick executes, and snake,
\* food, score, best and the high-score table stay as they are until a
\* Restart or Start resets the run.
C15_NoTickAfterGameOver ==
    [][(state = "gameover" /\ ev'.op \notin {"restart", "start"}) =>
          /\ ev'.op # "tick"
          /\ UNCHANGED <<body, food, score, best, records>>]_vars

\* C16 (as claimed): the direction a tick uses is never the exact opposite
\* of the direction the tick before it used, so the head never steps onto
\* the cell it has just left.  The tick before moved the head from body[2]
\* to body[1]; a snake that is not the one a reset builds has been moved by
\* a tick of this run.
C16_NoReversalBetweenTicks ==
    [][(IsTick /\ state = "playing" /\ body # SnakeInit(StartCell, 3)) =>
          /\ dir # <<body[2][1] - body[1][1], body[2][2] - body[1][2]>>
          /\ Ahead # body[2]]_vars

\* C17: after every tick, also one that ends the run, best >= score and the
\* high-score table's entry for the active (mode, wrap) key is >= score.
C17_BestCoversScore ==
    ev.op = "tick" =>
        /\ best >= score
        /\ RecordsGet(records, key_for_record(mode, wrap_on)) >= score

\* C18 (as claimed): in every reachable state the tick rate is
\* clamp(base[mode] + floor(score / 5) * 0.5, base[mode], ceiling[mode]) for
\* the current score and the active mode (rates in units of 0.5).
C18_RateFollowsScore ==
    LET asked == BASE_FPS[mode] + (score \div 5)
    IN  current_fps =
           (IF asked < BASE_FPS[mode] THEN BASE_FPS[mode]
            ELSE IF asked > MAX_FPS_CAP[mode] THEN MAX_FPS_CAP[mode]
            ELSE asked)

\* C19 (as claimed): a freshly started run with wrap off that receives no
\* input travels right until it ends at the wall; in particular the first
\* tick of the snake a reset builds, still heading Right, signals no self
\* collision and moves the head one cell to the right.
C19_FreshRunHeadsForWall ==
    [][(/\ IsTick /\ state = "playing" /\ ~wrap_on
        /\ body = SnakeInit(StartCell, 3) /\ dir = RIGHT /\ score = 0)
          => /\ game_over_reason' # "self"
             /\ state' = "playing"
             /\ body'[1] = <<body[1][1] + 1, body[1][2]>>]_vars

\* C20: in every reachable state best is the high-score table's entry for
\* the active (mode, wrap) key, 0 when the table has no such key.
C20_BestIsTableEntry ==
    LET key == mode \o "_" \o (IF wrap_on THEN "on" ELSE "off")
    IN  best = (IF key \in DOMAIN records THEN records[key] ELSE 0)

\* C20 witness: a run set the record of normal_off, then the menu's Wrap item
\* selected a key the table does not hold and best is 0.
C20_AbsentKeyWitness ==
    /\ ev.op = "menu_wrap" /\ wrap_on /\ mode = "normal"
    /\ DOMAIN records = {"normal_off"} /\ records["normal_off"] = score
    /\ score > 0 /\ best = 0

\* C21: a reset or an eating tick that leaves a free cell puts the new food
\* on a grid cell no snake cell occupies, and after every tick that completes
\* in Playing with a free cell available the food is not on the snake.
C21_FoodOffSnake ==
    /\ []((ev.op = "tick" /\ state = "playing" /\ FreeCells(body) # {}) =>
            /\ food.pos \in GridCells
            /\ \A i \in 1..Len(body) : body[i] # food.pos)
    /\ [][(\/ ev'.op \in {"start", "restart"}
           \/ /\ IsTick /\ state = "playing" /\ state' = "playing"
              /\ Eaten # "none" /\ FreeCells(body') # {})
             => /\ food'.kind # "none"
                /\ food'.pos \in GridCells
                /\ \A i \in 1..Len(body') : body'[i] # food'.pos]_vars

\* C21 witness: the snake has eaten its way to one cell short of the whole
\* grid and the new food lies on the one cell left.
C21_LastFreeCellWitness ==
    /\ ev.op = "tick" /\ state = "playing"
    /\ Len(body) = GRID_W * GRID_H - 1
    /\ FreeCells(body) = {food.pos}

\* C22: no tick runs while the state is Paused, and entering Pause, every
\* frame and key while paused, and Resume leave snake, direction, food,
\* score, tick rate and accumulator as they are; while paused only Resume
\* changes the game state, to Playing.
C22_PausedFreezesRun ==
    [][(state = "paused" \/ state' = "paused") =>
          /\ ev'.op # "tick"
          /\ UNCHANGED <<body, dir, food, score, current_fps, logic_acc>>
          /\ (state = "paused" /\ state' # "paused") =>
                (state' = "playing" /\ ev'.op = "resume")]_vars

\* C22 witness: the mute key was pressed while a run that has eaten, with
\* time left in its accumulator, is paused.
C22_MutedWhilePausedWitness ==
    /\ state = "paused" /\ ev.op = "mute"
    /\ logic_acc > 0 /\ Len(body) = 4 /\ score = SCORE_NORMAL

\* C23 (as claimed): when pygame.mixer.init() failed the sound is never
\* reported as on, and after every mute toggle and menu Sound change the
\* persisted sound flag is false.
C23_SoundStaysOff ==
    ~mixer_up =>
        /\ ~(sound_enabled /\ sound_ok)
        /\ ev.op \in {"mute", "menu_sound"} =>
              (~save_sound /\ (file.present => ~file.sound))

\* C24: the snake always has at least 3 cells, and between two resets no
\* step shortens it: its length stays the same on a tick that eats nothing
\* and grows only on a tick that eats.
C24_LengthNeverShrinks ==
    /\ [](Len(body) >= 3)
    /\ [][ev'.op \notin {"start", "restart"} =>
            /\ Len(body') >= Len(body)
            /\ (IsTick /\ Eaten = "none") => Len(body') = Len(body)
            /\ Len(body') > Len(body) => (IsTick /\ Eaten # "none")]_vars

\* C24 witness: the snake has grown to cover the grid and a later tick, which
\* ate nothing, has moved its head off the cell of the last food it ate.
C24_MovedGrownWitness ==
    /\ ev.op = "tick" /\ state = "playing"
    /\ Len(body) = GRID_W * GRID_H
    /\ food.pos # body[1]
    /\ \E i \in 2..Len(body) : body[i] = food.pos

====
